---- MODULE Spec2Model ----
(***************************************************************************)
(* local-skills-mcp: the SkillLoader (skill-loader.ts) and the two MCP     *)
(* request handlers of LocalSkillsServer (index.ts).                       *)
(*                                                                         *)
(* Text is a sequence of one-character strings.  The only tokens that      *)
(* stand for more than one character are the key/value lines of a YAML     *)
(* header ("name: a"), which the yaml library decodes, not this code.      *)
(* A message is a sequence of string parts, so that `${x}` interpolation   *)
(* keeps the interpolated value visible as a part.                         *)
(***************************************************************************)
EXTENDS Integers, Sequences, FiniteSets, TLC

VARIABLES
    boot,            \* what the process saw at start: existing dirs, SKILLS_DIR
    skillsPaths,     \* SkillLoader.skillsPaths = SKILLS_DIRS, set at start
    dirState,        \* filesystem: directory -> "ok" | "ENOENT" | "EACCES"
    tree,            \* filesystem: directory -> entry name -> entry
    skillRegistry,   \* SkillLoader.skillRegistry: name -> {path, source}
    resp,            \* outcome of the call that completed last, until the
                     \* filesystem changes
    prevLoad,        \* the loadSkill answered just before resp, if it succeeded
    lastScan,        \* what the last discovery returned and left, until the
                     \* filesystem changes
    edits,           \* number of filesystem changes made so far
    dpc,             \* in-flight discoverSkills: position ("idle" if none)
    dIdx,            \* in-flight discoverSkills: index into skillsPaths
    dEntries,        \* in-flight discoverSkills: entries still to probe
    allSkills,       \* in-flight discoverSkills: its local map
    logged,          \* in-flight discoverSkills: directories console.error'ed
    preScan,         \* registry as it was when the in-flight scan began
    lpc,             \* in-flight loadSkill: position ("idle" if none)
    lReq,            \* in-flight loadSkill: requested name and entry found
    midLookup,       \* lookups made while a scan was in flight
    scanB            \* a second discoverSkills in flight: position and locals

vars == <<boot, skillsPaths, dirState, tree, skillRegistry, resp, prevLoad,
          lastScan, edits, dpc, dIdx, dEntries, allSkills, logged, preScan, lpc, lReq,
          midLookup, scanB>>

fsVars == <<dirState, tree, edits>>
concVars == <<dpc, dIdx, dEntries, allSkills, logged, preScan, lpc, lReq, midLookup,
              scanB>>

----------------------------------------------------------------------------
(* Bounds *)

MaxEdits == 2
MaxBodyLen == 2
MaxHeaderLines == 2

----------------------------------------------------------------------------
(* Generic helpers: JavaScript string operations on token sequences *)

Min(S) == CHOOSE x \in S : \A y \in S : x <= y
Max(S) == CHOOSE x \in S : \A y \in S : x >= y

\* String.prototype.startsWith
StartsWith(s, p) == Len(s) >= Len(p) /\ SubSeq(s, 1, Len(p)) = p

\* String.prototype.indexOf(p, from): 0-based index, -1 when absent
IndexOf(s, p, from) ==
    LET hits == {i \in from..(Len(s) - Len(p)) : SubSeq(s, i + 1, i + Len(p)) = p}
    IN  IF hits = {} THEN -1 ELSE Min(hits)

\* String.prototype.substring(a, b) and substring(a), 0-based, end exclusive
Substring(s, a, b) == SubSeq(s, a + 1, b)
SubstringFrom(s, a) == SubSeq(s, a + 1, Len(s))

IsWS(c) == c \in {" ", "\n"}

\* String.prototype.trim
Trim_NoTrim(s) == s
Trim(s) ==
    LET keep == {i \in 1..Len(s) : ~IsWS(s[i])}
    IN  IF keep = {} THEN <<>> ELSE SubSeq(s, Min(keep), Max(keep))

\* Array.prototype.join over message parts
RECURSIVE Join(_, _)
Join(parts, sep) ==
    IF parts = <<>> THEN <<>>
    ELSE IF Len(parts) = 1 THEN parts[1]
    ELSE parts[1] \o sep \o Join(Tail(parts), sep)

\* Array.prototype.sort on a set of names (default order = code-unit order)
Before(x, y) ==
    CASE x = y -> FALSE
      [] x = "a" -> TRUE
      [] x = "b" -> y = "c"
      [] OTHER -> FALSE
RECURSIVE SortNames(_)
SortNames(S) ==
    IF S = {} THEN <<>>
    ELSE LET m == CHOOSE x \in S : \A y \in S \ {x} : Before(x, y)
         IN  <<m>> \o SortNames(S \ {m})

----------------------------------------------------------------------------
(* The yaml library's YAML.parse, on the header shapes the model writes *)

undefined == "<undefined>"

\* a decoded value that is not a string: the number 1
NUM_1 == "<number 1>"

KVTokens == {"name: a", "name: b", "name: ''", "name: 1", "description: p",
             "description: q", "license: MIT"}

KVKey(t) ==
    CASE t \in {"name: a", "name: b", "name: ''", "name: 1"} -> "name"
      [] t \in {"description: p", "description: q"} -> "description"
      [] OTHER -> "license"

KVVal(t) ==
    CASE t = "name: a" -> "a"
      [] t = "name: b" -> "b"
      [] t = "name: ''" -> ""
      [] t = "name: 1" -> NUM_1
      [] t = "description: p" -> "p"
      [] t = "description: q" -> "q"
      [] OTHER -> "MIT"

RECURSIVE SplitLines(_)
SplitLines(s) ==
    LET nl == {i \in 1..Len(s) : s[i] = "\n"}
    IN  IF nl = {} THEN <<s>>
        ELSE <<SubSeq(s, 1, Min(nl) - 1)>> \o SplitLines(SubSeq(s, Min(nl) + 1, Len(s)))

IsBlankLine(l) == \A i \in 1..Len(l) : l[i] = " "
IsKVLine(l) == Len(l) = 1 /\ l[1] \in KVTokens
DocStart == <<"-", "-", "-">>

YNull == [kind |-> "null"]
YError == [kind |-> "error", message |-> <<"YAMLParseError">>]
YOther == [kind |-> "other"]
YMap(m) == [kind |-> "map", map |-> m]

\* YAML.parse(text): null for an empty document, a mapping for key: value
\* lines, a scalar or list for plain text, a thrown error otherwise
YAMLparse(text) ==
    LET lines == SelectSeq(SplitLines(text), LAMBDA l : ~IsBlankLine(l))
        doc == IF lines # <<>> /\ lines[1] = DocStart THEN Tail(lines) ELSE lines
        n == Len(doc)
    IN  IF n = 0 THEN YNull
        ELSE IF \A i \in 1..n : IsKVLine(doc[i])
        THEN IF \E i, j \in 1..n : i # j /\ KVKey(doc[i][1]) = KVKey(doc[j][1])
             THEN YError
             ELSE YMap([k \in {KVKey(doc[i][1]) : i \in 1..n} |->
                        KVVal((CHOOSE l \in {doc[i] : i \in 1..n} : KVKey(l[1]) = k)[1])])
        ELSE IF \A i \in 1..n : ~IsKVLine(doc[i]) /\ \A j \in 1..Len(doc[i]) : doc[i][j] \notin KVTokens
        THEN YOther
        ELSE YError

\* JavaScript property read metadata.<k> on a decoded value that is not null
Prop(y, k) ==
    IF y.kind = "map" /\ k \in DOMAIN y.map THEN y.map[k] ELSE undefined

\* JavaScript truthiness of a property value
Truthy(v) == v # undefined /\ v # ""

----------------------------------------------------------------------------
(* SkillLoader.parseSkillFile *)

OPEN == <<"-", "-", "-", "\n">>
CLOSE == <<"\n", "-", "-", "-", "\n">>

MSG_OPEN == <<"SKILL.md must start with YAML frontmatter (---)">>
MSG_CLOSE == <<"SKILL.md frontmatter must end with --- delimiter">>
MSG_NAME == <<"SKILL.md frontmatter must include \"name\" field">>
MSG_DESC == <<"SKILL.md frontmatter must include \"description\" field">>
MSG_TYPEERROR == <<"Cannot read properties of null (reading 'name')">>

Throw(m) == [ok |-> FALSE, message |-> m]

parseSkillFile(content) ==
    IF ~StartsWith(content, OPEN) THEN Throw(MSG_OPEN)
    ELSE LET endDelimiterIndex == IndexOf(content, CLOSE, 4)
         IN  IF endDelimiterIndex = -1 THEN Throw(MSG_CLOSE)
             ELSE LET frontmatterText == Substring(content, 4, endDelimiterIndex)
                      metadata == YAMLparse(frontmatterText)
                  IN  IF metadata.kind = "error" THEN Throw(metadata.message)
                      ELSE IF metadata.kind = "null" THEN Throw(MSG_TYPEERROR)
                      ELSE IF ~Truthy(Prop(metadata, "name")) THEN Throw(MSG_NAME)
                      ELSE IF ~Truthy(Prop(metadata, "description")) THEN Throw(MSG_DESC)
                      ELSE [ok |-> TRUE,
                            metadata |-> metadata.map,
                            content |-> Trim(SubstringFrom(content, endDelimiterIndex + 5))]

----------------------------------------------------------------------------
(* The filesystem the server looks at *)

PKG == "/pkg/skills"
HOME == "~/.claude/skills"
PROJ_CLAUDE == "./.claude/skills"
PROJ == "./skills"
CUSTOM == "/custom"

AllDirs == {PKG, HOME, PROJ_CLAUDE, PROJ, CUSTOM}
Names == {"a", "b"}
ReqNames == Names \cup {"c"}

\* an entry <d>/<n>: its kind, whether <d>/<n>/SKILL.md exists and its text,
\* and whether <d>/<n>/inner/SKILL.md exists one level further down
NoEntry == [kind |-> "none", md |-> FALSE, text |-> <<>>, deep |-> FALSE]
PlainFile == [kind |-> "file", md |-> FALSE, text |-> <<>>, deep |-> FALSE]
EmptyDir == [kind |-> "dir", md |-> FALSE, text |-> <<>>, deep |-> FALSE]
NestedDir == [kind |-> "dir", md |-> FALSE, text |-> <<>>, deep |-> TRUE]
SkillDir(t) == [kind |-> "dir", md |-> TRUE, text |-> t, deep |-> FALSE]

\* fs.existsSync(dir)
ExistsSync(d) == dirState[d] # "ENOENT"

\* fs.readdir(dir, {withFileTypes: true}): the entry names, or the error code
Readdir(d) ==
    IF dirState[d] = "ok"
    THEN [ok |-> TRUE, entries |-> SortNames({n \in Names : tree[d][n].kind # "none"})]
    ELSE [ok |-> FALSE, code |-> dirState[d]]

\* entry.isDirectory()
IsDirectory(d, n) == tree[d][n].kind = "dir"

AccessOk_Deep(d, n) ==
    dirState[d] = "ok" /\ tree[d][n].kind = "dir" /\ (tree[d][n].md \/ tree[d][n].deep)
\* fs.access(path.join(dir, name, "SKILL.md")) resolves
AccessOk(d, n) == dirState[d] = "ok" /\ tree[d][n].kind = "dir" /\ tree[d][n].md

\* path.join(skillInfo.path, "SKILL.md") for skillInfo.path = <<dir, name>>
SkillFilePath(p) == <<p[1], p[2], "SKILL.md">>

\* fs.readFile(path.join(<<dir, name>>, "SKILL.md"), "utf-8")
ReadFile(p) ==
    IF AccessOk(p[1], p[2]) THEN [ok |-> TRUE, text |-> tree[p[1]][p[2]].text]
    ELSE IF dirState[p[1]] = "EACCES" THEN Throw(<<"EACCES: permission denied, open ", SkillFilePath(p)>>)
    ELSE IF dirState[p[1]] = "ok" /\ tree[p[1]][p[2]].kind = "file"
    THEN Throw(<<"ENOTDIR: not a directory, open ", SkillFilePath(p)>>)
    ELSE Throw(<<"ENOENT: no such file or directory, open ", SkillFilePath(p)>>)

----------------------------------------------------------------------------
(* index.ts: getAllSkillsDirectories, evaluated once for SKILLS_DIRS *)

\* directories.push(d) if cond
PushIf(list, cond, d) == IF cond THEN Append(list, d) ELSE list

getAllSkillsDirectories_EnvFirst(exists, env) ==
    LET d0 == PushIf(<<>>, env # "", env)
        d1 == PushIf(d0, PKG \in exists, PKG)
        d2 == PushIf(d1, HOME \in exists, HOME)
        d3 == PushIf(d2, PROJ_CLAUDE \in exists, PROJ_CLAUDE)
        d4 == PushIf(d3, PROJ \in exists, PROJ)
    IN  IF Len(d4) = 0 THEN <<PKG>> ELSE d4

getAllSkillsDirectories_HomeUnchecked(exists, env) ==
    LET d1 == PushIf(<<>>, PKG \in exists, PKG)
        d2 == PushIf(d1, TRUE, HOME)
        d3 == PushIf(d2, PROJ_CLAUDE \in exists, PROJ_CLAUDE)
        d4 == PushIf(d3, PROJ \in exists, PROJ)
        d5 == PushIf(d4, env # "", env)
    IN  IF Len(d5) = 0 THEN <<PKG>> ELSE d5

getAllSkillsDirectories_EnvIfExists(exists, env) ==
    LET d1 == PushIf(<<>>, PKG \in exists, PKG)
        d2 == PushIf(d1, HOME \in exists, HOME)
        d3 == PushIf(d2, PROJ_CLAUDE \in exists, PROJ_CLAUDE)
        d4 == PushIf(d3, PROJ \in exists, PROJ)
        d5 == PushIf(d4, env # "" /\ env \in exists, env)
    IN  IF Len(d5) = 0 THEN <<PKG>> ELSE d5

getAllSkillsDirectories_NoFallback(exists, env) ==
    LET d1 == PushIf(<<>>, PKG \in exists, PKG)
        d2 == PushIf(d1, HOME \in exists, HOME)
        d3 == PushIf(d2, PROJ_CLAUDE \in exists, PROJ_CLAUDE)
        d4 == PushIf(d3, PROJ \in exists, PROJ)
    IN  PushIf(d4, env # "", env)

\* exists: the directories for which fs.existsSync answers true;
\* env: process.env.SKILLS_DIR, "" when unset
getAllSkillsDirectories(exists, env) ==
    LET d1 == PushIf(<<>>, PKG \in exists, PKG)
        d2 == PushIf(d1, HOME \in exists, HOME)
        d3 == PushIf(d2, PROJ_CLAUDE \in exists, PROJ_CLAUDE)
        d4 == PushIf(d3, PROJ \in exists, PROJ)
        d5 == PushIf(d4, env # "", env)
    IN  IF Len(d5) = 0 THEN <<PKG>> ELSE d5

----------------------------------------------------------------------------
(* SkillLoader.discoverSkills, run to completion *)

EmptyMap == [n \in {} |-> [path |-> <<>>, source |-> ""]]

MapSet_KeepFirst(m, k, v) ==
    IF k \in DOMAIN m THEN m ELSE [x \in DOMAIN m \cup {k} |-> IF x = k THEN v ELSE m[x]]
\* Map.prototype.set
MapSet(m, k, v) == [x \in DOMAIN m \cup {k} |-> IF x = k THEN v ELSE m[x]]

\* the entry, were the skill's own directory recorded as its source
RegistryEntry_SourceIsPath(d, n) == [path |-> <<d, n>>, source |-> n]
RegistryEntry(d, n) == [path |-> <<d, n>>, source |-> d]

\* the inner loop, were it to register only the files that parse
RECURSIVE ScanEntries_Parsing(_, _, _)
ScanEntries_Parsing(d, entries, acc) ==
    IF entries = <<>> THEN acc
    ELSE LET n == Head(entries)
         IN  ScanEntries_Parsing(d, Tail(entries),
                 IF IsDirectory(d, n) /\ AccessOk(d, n) /\ parseSkillFile(tree[d][n].text).ok
                 THEN MapSet(acc, n, RegistryEntry(d, n))
                 ELSE acc)

\* the inner loop over one directory's entries
RECURSIVE ScanEntries(_, _, _)
ScanEntries(d, entries, acc) ==
    IF entries = <<>> THEN acc
    ELSE LET n == Head(entries)
         IN  ScanEntries(d, Tail(entries),
                 IF IsDirectory(d, n) /\ AccessOk(d, n)
                 THEN MapSet(acc, n, RegistryEntry(d, n))
                 ELSE acc)

\* the outer loop, were the try block around it: the first directory that
\* cannot be listed ends the scan
RECURSIVE ScanPaths_StopOnError(_, _)
ScanPaths_StopOnError(i, acc) ==
    IF i > Len(skillsPaths) THEN acc
    ELSE LET d == skillsPaths[i]
             listing == Readdir(d)
         IN  IF listing.ok
             THEN ScanPaths_StopOnError(i + 1, ScanEntries(d, listing.entries, acc))
             ELSE acc

\* the outer loop over skillsPaths, from index i on
RECURSIVE ScanPaths(_, _)
ScanPaths(i, acc) ==
    IF i > Len(skillsPaths) THEN acc
    ELSE LET d == skillsPaths[i]
             listing == Readdir(d)
         IN  ScanPaths(i + 1, IF listing.ok THEN ScanEntries(d, listing.entries, acc) ELSE acc)

\* the directories the catch block reports with console.error
ScanLogged == {skillsPaths[i] : i \in {j \in 1..Len(skillsPaths) : dirState[skillsPaths[j]] = "EACCES"}}

discoverSkills_Merge == ScanPaths(1, skillRegistry)
discoverSkills_OnlyNew ==
    LET found == ScanPaths(1, EmptyMap)
    IN  [n \in DOMAIN found \ DOMAIN skillRegistry |-> found[n]]
\* the map discoverSkills assigns to this.skillRegistry
discoverSkills == ScanPaths(1, EmptyMap)

\* the keys sorted with the comparison the wrong way round
SkillNamesOf_Descending(m) ==
    CHOOSE s \in [1..Cardinality(DOMAIN m) -> DOMAIN m] :
        /\ {s[i] : i \in 1..Len(s)} = DOMAIN m
        /\ \A i, j \in 1..Len(s) : i < j => Before(s[j], s[i])
\* its return value: Array.from(allSkills.keys()).sort()
SkillNamesOf(m) == SortNames(DOMAIN m)

----------------------------------------------------------------------------
(* SkillLoader.loadSkill and getSkillMetadata, run to completion *)

NotFoundLoad_NoName(skillName) ==
    <<"Skill not found. Run list_skills to see available skills.">>
NotFoundLoad(skillName) ==
    <<"Skill \"", skillName, "\" not found. Run list_skills to see available skills.">>
NotFoundMeta(skillName) == <<"Skill \"", skillName, "\" not found">>
\* the catch block of loadSkill, were it to drop the cause
FailedLoad_NoCause(skillName, m) == <<"Failed to load skill \"", skillName, "\"">>
FailedLoad(skillName, m) == <<"Failed to load skill \"", skillName, "\": ">> \o m
FailedMeta(skillName, m) == <<"Failed to load metadata for skill \"", skillName, "\": ">> \o m

\* the try block of loadSkill, were the Skill named after its directory
ReadAndParse_DirName(skillName, skillInfo) ==
    LET file == ReadFile(skillInfo.path)
        parsed == IF file.ok THEN parseSkillFile(file.text) ELSE file
    IN  IF ~parsed.ok
        THEN [ok |-> FALSE, message |-> FailedLoad(skillName, parsed.message),
              reads |-> {SkillFilePath(skillInfo.path)}]
        ELSE [ok |-> TRUE,
              value |-> [name |-> skillInfo.path[2],
                         description |-> parsed.metadata["description"],
                         content |-> parsed.content,
                         path |-> skillInfo.path,
                         source |-> skillInfo.source],
              reads |-> {SkillFilePath(skillInfo.path)}]
\* the try block of loadSkill, given the registry entry found
ReadAndParse(skillName, skillInfo) ==
    LET file == ReadFile(skillInfo.path)
        parsed == IF file.ok THEN parseSkillFile(file.text) ELSE file
    IN  IF ~parsed.ok
        THEN [ok |-> FALSE, message |-> FailedLoad(skillName, parsed.message),
              reads |-> {SkillFilePath(skillInfo.path)}]
        ELSE [ok |-> TRUE,
              value |-> [name |-> parsed.metadata["name"],
                         description |-> parsed.metadata["description"],
                         content |-> parsed.content,
                         path |-> skillInfo.path,
                         source |-> skillInfo.source],
              reads |-> {SkillFilePath(skillInfo.path)}]

loadSkill_Cached(skillName) ==
    IF skillName \notin DOMAIN skillRegistry
    THEN [ok |-> FALSE, message |-> NotFoundLoad(skillName), reads |-> {}]
    ELSE LET fresh == ReadAndParse(skillName, skillRegistry[skillName])
         IN  IF fresh.ok /\ prevLoad.name = skillName
             THEN [fresh EXCEPT !.value.content = prevLoad.content]
             ELSE fresh
\* loadSkill, were an unregistered name looked for under the first directory
loadSkill_Direct(skillName) ==
    IF skillName \in DOMAIN skillRegistry
    THEN ReadAndParse(skillName, skillRegistry[skillName])
    ELSE IF skillName \in Names
    THEN ReadAndParse(skillName, RegistryEntry(skillsPaths[1], skillName))
    ELSE [ok |-> FALSE, message |-> NotFoundLoad(skillName), reads |-> {}]
\* loadSkill, were it to scan the directories for a name it does not know
loadSkill_ScanFirst(skillName) ==
    IF skillName \in DOMAIN skillRegistry
    THEN ReadAndParse(skillName, skillRegistry[skillName])
    ELSE IF skillName \in DOMAIN discoverSkills
    THEN ReadAndParse(skillName, discoverSkills[skillName])
    ELSE [ok |-> FALSE, message |-> NotFoundLoad(skillName), reads |-> {}]
\* loadSkill, were a registered skill whose file is gone reported as not found
loadSkill_GoneIsNotFound(skillName) ==
    IF skillName \notin DOMAIN skillRegistry \/ ~ReadFile(skillRegistry[skillName].path).ok
    THEN [ok |-> FALSE, message |-> NotFoundLoad(skillName), reads |-> {}]
    ELSE ReadAndParse(skillName, skillRegistry[skillName])
loadSkill(skillName) ==
    IF skillName \notin DOMAIN skillRegistry
    THEN [ok |-> FALSE, message |-> NotFoundLoad(skillName), reads |-> {}]
    ELSE ReadAndParse(skillName, skillRegistry[skillName])

\* getSkillMetadata without its try/catch: the cause is thrown as it is
getSkillMetadata_Unwrapped(skillName) ==
    IF skillName \notin DOMAIN skillRegistry
    THEN [ok |-> FALSE, message |-> NotFoundMeta(skillName), reads |-> {}]
    ELSE LET skillInfo == skillRegistry[skillName]
             file == ReadFile(skillInfo.path)
             parsed == IF file.ok THEN parseSkillFile(file.text) ELSE file
         IN  IF ~parsed.ok
             THEN [ok |-> FALSE, message |-> parsed.message,
                   reads |-> {SkillFilePath(skillInfo.path)}]
             ELSE [ok |-> TRUE,
                   value |-> [metadata |-> parsed.metadata, source |-> skillInfo.source],
                   reads |-> {SkillFilePath(skillInfo.path)}]
getSkillMetadata(skillName) ==
    IF skillName \notin DOMAIN skillRegistry
    THEN [ok |-> FALSE, message |-> NotFoundMeta(skillName), reads |-> {}]
    ELSE LET skillInfo == skillRegistry[skillName]
             file == ReadFile(skillInfo.path)
             parsed == IF file.ok THEN parseSkillFile(file.text) ELSE file
         IN  IF ~parsed.ok
             THEN [ok |-> FALSE, message |-> FailedMeta(skillName, parsed.message),
                   reads |-> {SkillFilePath(skillInfo.path)}]
             ELSE [ok |-> TRUE,
                   value |-> [metadata |-> parsed.metadata, source |-> skillInfo.source],
                   reads |-> {SkillFilePath(skillInfo.path)}]

----------------------------------------------------------------------------
(* index.ts: the ListTools and CallTool handlers *)

DESC_BASE == "Loads specialized expert prompt instructions [...] expert-level guidance."
ToolNames == {"get_skill", "list_skills"}

\* Array.prototype.join on an array of strings
JoinStr(list, sep) == Join([i \in 1..Len(list) |-> <<list[i]>>], <<sep>>)

SKILL_NAME_DESC == "The name of the skill to retrieve (e.g., \"code-reviewer\", \"test-generator\")"

InputSchema_NotRequired ==
    [type |-> "object",
     properties |-> [skill_name |-> [type |-> "string", description |-> SKILL_NAME_DESC]],
     required |-> <<>>]
InputSchema ==
    [type |-> "object",
     properties |-> [skill_name |-> [type |-> "string", description |-> SKILL_NAME_DESC]],
     required |-> <<"skill_name">>]

ListToolsResult_Stale(skillNames) ==
    LET known == SkillNamesOf(skillRegistry)
        getSkillDescription ==
            IF Len(known) > 0
            THEN <<DESC_BASE, "\n\nAvailable skills: ">> \o JoinStr(known, ", ")
            ELSE <<DESC_BASE, "\n\nNo skills currently available. Check configured directories: ">>
                 \o JoinStr(skillsPaths, ", ")
    IN  [tools |-> <<[name |-> "get_skill",
                      description |-> getSkillDescription,
                      inputSchema |-> InputSchema]>>]
\* the ListTools response for the names discoverSkills returned
ListToolsResult(skillNames) ==
    LET getSkillDescription ==
            IF Len(skillNames) > 0
            THEN <<DESC_BASE, "\n\nAvailable skills: ">> \o JoinStr(skillNames, ", ")
            ELSE <<DESC_BASE, "\n\nNo skills currently available. Check configured directories: ">>
                 \o JoinStr(skillsPaths, ", ")
    IN  [tools |-> <<[name |-> "get_skill",
                      description |-> getSkillDescription,
                      inputSchema |-> InputSchema]>>]

\* request.params.arguments: absent, or an object with or without skill_name
ArgsChoices ==
    {[defined |-> FALSE, skill_name |-> undefined],
     [defined |-> TRUE, skill_name |-> undefined],
     [defined |-> TRUE, skill_name |-> ""]}
    \cup {[defined |-> TRUE, skill_name |-> n] : n \in ReqNames}

TextContent(t) == [content |-> <<[type |-> "text", text |-> t]>>]

FormatSkill_RequestedPath(loaded) ==
    LET skill == loaded.value
        output == << <<"# Skill: ", skill.path[2]>>,
                     <<>>,
                     <<"**Description:** ", skill.description>>,
                     <<"**Source:** ", skill.source>>,
                     <<>>,
                     <<"---">>,
                     <<>>,
                     skill.content >>
    IN  [ok |-> TRUE, value |-> TextContent(Join(output, <<"\n">>)), reads |-> loaded.reads]
\* lines 232-250 of handleGetSkill: the response for a loaded skill
FormatSkill(loaded) ==
    LET skill == loaded.value
        output == << <<"# Skill: ", skill.name>>,
                     <<>>,
                     <<"**Description:** ", skill.description>>,
                     <<"**Source:** ", skill.source>>,
                     <<>>,
                     <<"---">>,
                     <<>>,
                     skill.content >>
    IN  [ok |-> TRUE, value |-> TextContent(Join(output, <<"\n">>)), reads |-> loaded.reads]

\* args?.skill_name
SkillNameArg(args) == IF args.defined THEN args.skill_name ELSE undefined

handleGetSkill_NoCheck(args) ==
    LET loaded == loadSkill(SkillNameArg(args))
    IN  IF ~loaded.ok THEN loaded ELSE FormatSkill(loaded)
handleGetSkill(args) ==
    LET skillName == SkillNameArg(args)
    IN  IF ~Truthy(skillName)
        THEN [ok |-> FALSE, message |-> <<"skill_name is required">>, reads |-> {}]
        ELSE LET loaded == loadSkill(skillName)
             IN  IF ~loaded.ok THEN loaded ELSE FormatSkill(loaded)

CatchToText_Rethrow(tried) == tried
\* the catch block of the CallTool handler
CatchToText(tried) ==
    IF tried.ok THEN tried
    ELSE [ok |-> TRUE, value |-> TextContent(<<"Error: ">> \o tried.message),
          reads |-> tried.reads]

CallToolHandler_NoDefault(name, args) == CatchToText(handleGetSkill(args))
\* the CallTool handler: switch inside try, catch turns an error into text
CallToolHandler(name, args) ==
    CatchToText(IF name = "get_skill" THEN handleGetSkill(args)
                ELSE [ok |-> FALSE, message |-> <<"Unknown tool: ", name>>, reads |-> {}])

----------------------------------------------------------------------------
(* Initial state: the process has evaluated SKILLS_DIRS and built the loader *)

Range(f) == {f[i] : i \in DOMAIN f}

\* a packaged skill, its edited version, and a file without frontmatter
TEXT_P == OPEN \o <<"name: a", "\n", "description: p">> \o CLOSE \o <<"\n", "x">>
TEXT_Q == OPEN \o <<"name: b", "\n", "description: q">> \o CLOSE \o <<"x", "x", "\n">>
TEXT_BAD == <<"x", "x">>
Texts == {TEXT_P, TEXT_Q, TEXT_BAD}

Boots ==
    {[exists |-> {PKG, HOME}, env |-> ""],
     [exists |-> {PKG}, env |-> CUSTOM],
     [exists |-> {PKG}, env |-> PKG]}

NoResp == [op |-> "none", req |-> <<>>, out |-> [ok |-> TRUE, value |-> <<>>, reads |-> {}]]
NoLoad == [name |-> "", content |-> <<>>]
NoScan == [valid |-> FALSE, names |-> <<>>, registry |-> EmptyMap, loads |-> FALSE,
           again |-> FALSE]
NoReq == [name |-> "", info |-> RegistryEntry("", "")]
NoLookup == [name |-> "", found |-> TRUE, during |-> FALSE]
NoScanB == [pc |-> "idle", idx |-> 0, entries |-> <<>>, all |-> EmptyMap, errs |-> {},
            before |-> EmptyMap]

ConcIdle ==
    /\ dpc = "idle"
    /\ dIdx = 0
    /\ dEntries = <<>>
    /\ allSkills = EmptyMap
    /\ logged = {}
    /\ preScan = EmptyMap
    /\ lpc = "idle"
    /\ lReq = NoReq
    /\ midLookup = NoLookup
    /\ scanB = NoScanB

\* the packaged default ships one skill
InitTree(b) ==
    [d \in AllDirs |-> [n \in Names |->
        IF d = PKG /\ d \in b.exists /\ n = "a" THEN SkillDir(TEXT_P) ELSE NoEntry]]

InitFor(b) ==
    /\ boot = b
    /\ skillsPaths = getAllSkillsDirectories(b.exists, b.env)
    /\ dirState = [d \in AllDirs |-> IF d \in b.exists THEN "ok" ELSE "ENOENT"]
    /\ tree = InitTree(b)
    /\ skillRegistry = EmptyMap
    /\ resp = NoResp
    /\ prevLoad = NoLoad
    /\ lastScan = NoScan
    /\ edits = 0
    /\ ConcIdle

Init == \E b \in Boots : InitFor(b)

----------------------------------------------------------------------------
(* The environment: changes to the configured directories *)

\* the answer before resp, kept if it was a successful loadSkill
Archive ==
    prevLoad' = IF resp.op = "loadSkill" /\ resp.out.ok
                THEN [name |-> resp.req[1], content |-> resp.out.value.content]
                ELSE IF resp.op = "none" THEN prevLoad
                ELSE NoLoad

CanEdit(d) == edits < MaxEdits /\ d \in Range(skillsPaths)

SetEntry(d, n, e) ==
    /\ dirState[d] = "ok"
    /\ tree[d][n] # e
    /\ tree' = [tree EXCEPT ![d][n] = e]
    /\ edits' = edits + 1
    /\ UNCHANGED dirState

\* mkdir <d>/<n> and write <d>/<n>/SKILL.md, or overwrite it
WriteSkill(d, n, t) == CanEdit(d) /\ SetEntry(d, n, SkillDir(t))
\* rm -r <d>/<n>
RemoveEntry(d, n) == CanEdit(d) /\ SetEntry(d, n, NoEntry)
\* a plain file <d>/<n>, or a directory <d>/<n> without SKILL.md, empty or
\* with a skill directory nested in it
OtherEntries == {PlainFile, EmptyDir, NestedDir}
MakeOther(d, n, e) == CanEdit(d) /\ e \in OtherEntries /\ SetEntry(d, n, e)
\* rm -r <d>, mkdir <d>, chmod 000 <d>, chmod 755 <d>
SetDir(d, s) ==
    /\ CanEdit(d)
    /\ dirState[d] # s
    /\ dirState[d] = "ENOENT" => s = "ok"
    /\ dirState' = [dirState EXCEPT ![d] = s]
    /\ tree' = IF s = "ENOENT" THEN [tree EXCEPT ![d] = [n \in Names |-> NoEntry]] ELSE tree
    /\ edits' = edits + 1

FsEdit ==
    /\ \E d \in AllDirs :
          \/ \E n \in Names, t \in Texts : WriteSkill(d, n, t)
          \/ \E n \in Names : RemoveEntry(d, n)
          \/ \E n \in Names, e \in OtherEntries : MakeOther(d, n, e)
          \/ \E s \in {"ok", "ENOENT", "EACCES"} : SetDir(d, s)
    /\ resp' = NoResp
    /\ Archive
    /\ lastScan' = NoScan
    /\ UNCHANGED <<boot, skillsPaths, skillRegistry>>
    /\ UNCHANGED concVars

----------------------------------------------------------------------------
(* Calls that run to completion without another call in between *)

\* the sorted names a discovery handed out: discoverSkills' return value, or
\* the names the ListTools handler put into the description
ScanNames(op, out) ==
    IF op = "discoverSkills" THEN out.value
    ELSE SelectSeq(out.value.tools[1].description, LAMBDA x : x \in Names)

\* lastScan after a completed call: a discovery is remembered, together with
\* whether it repeats one with only get_skill requests since; a get_skill
\* request is noted
Remember(op, req, out) ==
    lastScan' =
        IF op \in {"discoverSkills", "ListTools"}
        THEN [valid |-> TRUE, names |-> ScanNames(op, out), registry |-> skillRegistry',
              loads |-> FALSE, again |-> lastScan.valid /\ lastScan.loads]
        ELSE IF op = "CallTool" /\ req[1] = "get_skill" /\ lastScan.valid
        THEN [lastScan EXCEPT !.loads = TRUE]
        ELSE lastScan

Completed(op, req, out) ==
    /\ resp' = [op |-> op, req |-> req, out |-> out]
    /\ Archive
    /\ Remember(op, req, out)

\* the outcome of a completed discoverSkills: the sorted names returned,
\* what console.error reported, and the registry the call replaced
Discovered(value, errors, before) ==
    [ok |-> TRUE, value |-> value, reads |-> {}, logged |-> errors, before |-> before]

\* discoverSkills, were it to create the configured directories it misses
DoDiscoverSkills_Mkdir ==
    /\ skillRegistry' = discoverSkills
    /\ Completed("discoverSkills", <<>>,
                 Discovered(SkillNamesOf(discoverSkills), ScanLogged, skillRegistry))
    /\ dirState' = [d \in AllDirs |->
                       IF d \in Range(skillsPaths) /\ dirState[d] = "ENOENT"
                       THEN "ok" ELSE dirState[d]]
    /\ UNCHANGED <<boot, skillsPaths, tree, edits>>
    /\ UNCHANGED concVars

\* discoverSkills, were the directory list resolved again at every call
DoDiscoverSkills_Reresolve ==
    /\ skillsPaths' = getAllSkillsDirectories({d \in AllDirs : ExistsSync(d)}, boot.env)
    /\ skillRegistry' = discoverSkills
    /\ Completed("discoverSkills", <<>>,
                 Discovered(SkillNamesOf(discoverSkills), ScanLogged, skillRegistry))
    /\ UNCHANGED boot
    /\ UNCHANGED fsVars
    /\ UNCHANGED concVars

DoDiscoverSkills ==
    /\ skillRegistry' = discoverSkills
    /\ Completed("discoverSkills", <<>>,
                 Discovered(SkillNamesOf(discoverSkills), ScanLogged, skillRegistry))
    /\ UNCHANGED <<boot, skillsPaths>>
    /\ UNCHANGED fsVars
    /\ UNCHANGED concVars

DoListTools ==
    /\ skillRegistry' = discoverSkills
    /\ Completed("ListTools", <<>>,
                 Discovered(ListToolsResult(SkillNamesOf(discoverSkills)), ScanLogged,
                            skillRegistry))
    /\ UNCHANGED <<boot, skillsPaths>>
    /\ UNCHANGED fsVars
    /\ UNCHANGED concVars

\* loadSkill, were a registry entry whose file fails to load dropped
DoLoadSkill_Evict(n) ==
    /\ Completed("loadSkill", <<n>>, loadSkill(n))
    /\ skillRegistry' = IF n \in DOMAIN skillRegistry /\ ~loadSkill(n).ok
                        THEN [k \in DOMAIN skillRegistry \ {n} |-> skillRegistry[k]]
                        ELSE skillRegistry
    /\ UNCHANGED <<boot, skillsPaths>>
    /\ UNCHANGED fsVars
    /\ UNCHANGED concVars

DoLoadSkill(n) ==
    /\ Completed("loadSkill", <<n>>, loadSkill(n))
    /\ UNCHANGED <<boot, skillsPaths, skillRegistry>>
    /\ UNCHANGED fsVars
    /\ UNCHANGED concVars

DoGetSkillMetadata(n) ==
    /\ Completed("getSkillMetadata", <<n>>, getSkillMetadata(n))
    /\ UNCHANGED <<boot, skillsPaths, skillRegistry>>
    /\ UNCHANGED fsVars
    /\ UNCHANGED concVars

DoCallTool(name, args) ==
    /\ Completed("CallTool", <<name, args>>, CallToolHandler(name, args))
    /\ UNCHANGED <<boot, skillsPaths, skillRegistry>>
    /\ UNCHANGED fsVars
    /\ UNCHANGED concVars

Next ==
    \/ FsEdit
    \/ DoDiscoverSkills
    \/ DoListTools
    \/ \E n \in ReqNames : DoLoadSkill(n)
    \/ \E n \in ReqNames : DoGetSkillMetadata(n)
    \/ \E name \in ToolNames, args \in ArgsChoices : DoCallTool(name, args)

Spec == Init /\ [][Next]_vars

----------------------------------------------------------------------------
(* A process whose client never sends ListTools: no discovery runs, while  *)
(* skills are requested and the directories change.                        *)

NextFresh ==
    \/ FsEdit
    \/ \E n \in ReqNames : DoLoadSkill(n)
    \/ \E n \in ReqNames : DoGetSkillMetadata(n)
    \/ \E name \in ToolNames, args \in ArgsChoices : DoCallTool(name, args)

SpecFresh == Init /\ [][NextFresh]_vars

----------------------------------------------------------------------------
(* Calls in flight together: each action is the code between two awaits.   *)
(* A ListTools request runs discoverSkills; a CallTool get_skill request   *)
(* runs loadSkill.                                                         *)

\* discoverSkills returns: the registry is replaced and the handler answers
ScanFinish(all, errs) ==
    /\ skillRegistry' = all
    /\ Completed("ListTools", <<>>,
                 Discovered(ListToolsResult(SkillNamesOf(all)), errs, preScan))
    /\ dpc' = "idle"
    /\ dIdx' = 0
    /\ dEntries' = <<>>
    /\ allSkills' = EmptyMap
    /\ logged' = {}

\* the for loop, were a scan that met an unreadable directory run again
ScanNextPath_Retry(i, all, errs) ==
    IF i < Len(skillsPaths)
    THEN /\ dpc' = "readdir"
         /\ dIdx' = i + 1
         /\ dEntries' = <<>>
         /\ allSkills' = all
         /\ logged' = errs
         /\ UNCHANGED <<skillRegistry, resp, prevLoad, lastScan>>
    ELSE IF errs # {}
    THEN /\ dpc' = "readdir"
         /\ dIdx' = 1
         /\ dEntries' = <<>>
         /\ allSkills' = EmptyMap
         /\ logged' = {}
         /\ UNCHANGED <<skillRegistry, resp, prevLoad, lastScan>>
    ELSE ScanFinish(all, errs)

\* the for loop over skillsPaths moves on from index i, with local map all
ScanNextPath(i, all, errs) ==
    IF i < Len(skillsPaths)
    THEN /\ dpc' = "readdir"
         /\ dIdx' = i + 1
         /\ dEntries' = <<>>
         /\ allSkills' = all
         /\ logged' = errs
         /\ UNCHANGED <<skillRegistry, resp, prevLoad, lastScan>>
    ELSE ScanFinish(all, errs)

\* discoverSkills up to its first await: clear(), new local map, readdir issued
ListToolsBegin ==
    /\ dpc = "idle"
    /\ preScan' = skillRegistry
    /\ midLookup' = NoLookup
    /\ skillRegistry' = EmptyMap
    /\ allSkills' = EmptyMap
    /\ dpc' = "readdir"
    /\ dIdx' = 1
    /\ dEntries' = <<>>
    /\ logged' = {}
    /\ UNCHANGED <<boot, skillsPaths, resp, prevLoad, lastScan, lpc, lReq, scanB>>
    /\ UNCHANGED fsVars

\* fs.readdir settles; the loop runs on to the first fs.access or further
ReaddirDone ==
    /\ dpc = "readdir"
    /\ LET d == skillsPaths[dIdx]
           listing == Readdir(d)
           subdirs == IF listing.ok
                      THEN SelectSeq(listing.entries, LAMBDA n : IsDirectory(d, n))
                      ELSE <<>>
           errs == IF ~listing.ok /\ listing.code # "ENOENT"
                   THEN logged \cup {d} ELSE logged
       IN  IF subdirs # <<>>
           THEN /\ dpc' = "access"
                /\ dEntries' = subdirs
                /\ UNCHANGED <<dIdx, allSkills, logged, skillRegistry, resp, prevLoad, lastScan>>
           ELSE ScanNextPath(dIdx, allSkills, errs)
    /\ UNCHANGED <<boot, skillsPaths, preScan, lpc, lReq, midLookup, scanB>>
    /\ UNCHANGED fsVars

\* fs.access settles for the entry being probed
AccessDone ==
    /\ dpc = "access"
    /\ LET d == skillsPaths[dIdx]
           n == Head(dEntries)
           all == IF AccessOk(d, n) THEN MapSet(allSkills, n, RegistryEntry(d, n))
                  ELSE allSkills
       IN  IF Tail(dEntries) # <<>>
           THEN /\ dEntries' = Tail(dEntries)
                /\ allSkills' = all
                /\ UNCHANGED <<dpc, dIdx, logged, skillRegistry, resp, prevLoad, lastScan>>
           ELSE ScanNextPath(dIdx, all, logged)
    /\ UNCHANGED <<boot, skillsPaths, preScan, lpc, lReq, midLookup, scanB>>
    /\ UNCHANGED fsVars

\* the registry lookup a call makes, noted when a scan is in flight
NoteLookup(n, found) ==
    midLookup' = IF dpc # "idle" THEN [name |-> n, found |-> found, during |-> TRUE]
                 ELSE midLookup

\* CallTool get_skill up to its first await: the lookup, then readFile issued
CallToolBegin(n) ==
    /\ lpc = "idle"
    /\ NoteLookup(n, n \in DOMAIN skillRegistry)
    /\ IF n \in DOMAIN skillRegistry
       THEN /\ lpc' = "read"
            /\ lReq' = [name |-> n, info |-> skillRegistry[n]]
            /\ UNCHANGED <<resp, prevLoad, lastScan>>
       ELSE /\ Completed("CallTool", <<"get_skill", [defined |-> TRUE, skill_name |-> n]>>,
                         CatchToText([ok |-> FALSE, message |-> NotFoundLoad(n), reads |-> {}]))
            /\ UNCHANGED <<lpc, lReq>>
    /\ UNCHANGED <<boot, skillsPaths, skillRegistry>>
    /\ UNCHANGED <<dpc, dIdx, dEntries, allSkills, logged, preScan, scanB>>
    /\ UNCHANGED fsVars

\* fs.readFile settles; parse, format, answer
ReadDone ==
    /\ lpc = "read"
    /\ LET loaded == ReadAndParse(lReq.name, lReq.info)
       IN  Completed("CallTool", <<"get_skill", [defined |-> TRUE, skill_name |-> lReq.name]>>,
                     CatchToText(IF loaded.ok THEN FormatSkill(loaded) ELSE loaded))
    /\ lpc' = "idle"
    /\ lReq' = NoReq
    /\ UNCHANGED <<boot, skillsPaths, skillRegistry>>
    /\ UNCHANGED <<dpc, dIdx, dEntries, allSkills, logged, preScan, midLookup, scanB>>
    /\ UNCHANGED fsVars

NextConc ==
    \/ FsEdit
    \/ ListToolsBegin
    \/ ReaddirDone
    \/ AccessDone
    \/ \E n \in ReqNames : CallToolBegin(n)
    \/ ReadDone

SpecConc == Init /\ [][NextConc]_vars

----------------------------------------------------------------------------
(* Calls in flight, with every filesystem operation issued settling in the *)
(* end: a promise of fs.readdir, fs.access or fs.readFile that is pending  *)
(* is resolved or rejected by the runtime, and its continuation runs.      *)
(* For fs.readFile the step is named by what it does to lpc: the only step *)
(* that takes lpc from "read" to "idle" is ReadDone.                       *)

\* the pending fs.readFile of a load settles and the load returns
ReadSettles == lpc = "read" /\ lpc' = "idle"

MaxLiveEdits == 1

\* the process starts with the packaged and the per-user directory
LiveBoot == [exists |-> {PKG, HOME}, env |-> ""]
InitLive == InitFor(LiveBoot)

LiveEdit == edits < MaxLiveEdits /\ FsEdit

NextLive ==
    \/ LiveEdit
    \/ ListToolsBegin
    \/ ReaddirDone
    \/ AccessDone
    \/ \E n \in Names : CallToolBegin(n)
    \/ ReadDone

SpecLive ==
    /\ InitLive
    /\ [][NextLive]_vars
    /\ WF_vars(ReaddirDone)
    /\ WF_vars(AccessDone)
    /\ WF_lpc(ReadSettles)

----------------------------------------------------------------------------
(* Two ListTools requests in flight together: while the discoverSkills of  *)
(* the first is between two awaits, a second request starts its own        *)
(* discoverSkills, with its own loop position and its own local map.       *)

\* the second call, were it to set its entries into the registry it finds
SecondFinish_Merge(all, errs) ==
    /\ skillRegistry' = [n \in DOMAIN skillRegistry \cup DOMAIN all |->
                            IF n \in DOMAIN all THEN all[n] ELSE skillRegistry[n]]
    /\ Completed("ListTools", <<>>,
                 Discovered(ListToolsResult(SkillNamesOf(all)), errs, scanB.before))
    /\ scanB' = NoScanB

\* the second discoverSkills returns: the registry is replaced by its map
SecondFinish(all, errs) ==
    /\ skillRegistry' = all
    /\ Completed("ListTools", <<>>,
                 Discovered(ListToolsResult(SkillNamesOf(all)), errs, scanB.before))
    /\ scanB' = NoScanB

\* its for loop over skillsPaths moves on from index i
SecondNextPath(i, all, errs) ==
    IF i < Len(skillsPaths)
    THEN /\ scanB' = [scanB EXCEPT !.pc = "readdir", !.idx = i + 1, !.entries = <<>>,
                                   !.all = all, !.errs = errs]
         /\ UNCHANGED <<skillRegistry, resp, prevLoad, lastScan>>
    ELSE SecondFinish(all, errs)

\* the second discoverSkills up to its first await, begun while the first
\* is in flight: clear(), new local map, readdir issued
SecondBegin ==
    /\ dpc # "idle"
    /\ scanB.pc = "idle"
    /\ skillRegistry' = EmptyMap
    /\ scanB' = [pc |-> "readdir", idx |-> 1, entries |-> <<>>, all |-> EmptyMap,
                 errs |-> {}, before |-> skillRegistry]
    /\ UNCHANGED <<boot, skillsPaths, resp, prevLoad, lastScan>>
    /\ UNCHANGED <<dpc, dIdx, dEntries, allSkills, logged, preScan, lpc, lReq, midLookup>>
    /\ UNCHANGED fsVars

\* its fs.readdir settles
SecondReaddirDone ==
    /\ scanB.pc = "readdir"
    /\ LET d == skillsPaths[scanB.idx]
           listing == Readdir(d)
           subdirs == IF listing.ok
                      THEN SelectSeq(listing.entries, LAMBDA n : IsDirectory(d, n))
                      ELSE <<>>
           errs == IF ~listing.ok /\ listing.code # "ENOENT"
                   THEN scanB.errs \cup {d} ELSE scanB.errs
       IN  IF subdirs # <<>>
           THEN /\ scanB' = [scanB EXCEPT !.pc = "access", !.entries = subdirs]
                /\ UNCHANGED <<skillRegistry, resp, prevLoad, lastScan>>
           ELSE SecondNextPath(scanB.idx, scanB.all, errs)
    /\ UNCHANGED <<boot, skillsPaths>>
    /\ UNCHANGED <<dpc, dIdx, dEntries, allSkills, logged, preScan, lpc, lReq, midLookup>>
    /\ UNCHANGED fsVars

\* its fs.access settles for the entry being probed
SecondAccessDone ==
    /\ scanB.pc = "access"
    /\ LET d == skillsPaths[scanB.idx]
           n == Head(scanB.entries)
           all == IF AccessOk(d, n) THEN MapSet(scanB.all, n, RegistryEntry(d, n))
                  ELSE scanB.all
       IN  IF Tail(scanB.entries) # <<>>
           THEN /\ scanB' = [scanB EXCEPT !.entries = Tail(scanB.entries), !.all = all]
                /\ UNCHANGED <<skillRegistry, resp, prevLoad, lastScan>>
           ELSE SecondNextPath(scanB.idx, all, scanB.errs)
    /\ UNCHANGED <<boot, skillsPaths>>
    /\ UNCHANGED <<dpc, dIdx, dEntries, allSkills, logged, preScan, lpc, lReq, midLookup>>
    /\ UNCHANGED fsVars

NextTwo ==
    \/ LiveEdit
    \/ ListToolsBegin
    \/ ReaddirDone
    \/ AccessDone
    \/ SecondBegin
    \/ SecondReaddirDone
    \/ SecondAccessDone

SpecTwo == InitLive /\ [][NextTwo]_vars

----------------------------------------------------------------------------
(* The parser on generated files: one skill directory PKG/a whose SKILL.md *)
(* is any text put together from an opening, header lines, a closing and a *)
(* body; the loader is then run on it.                                     *)

RECURSIVE SeqsUpTo(_, _)
SeqsUpTo(S, n) ==
    IF n = 0 THEN {<<>>}
    ELSE LET shorter == SeqsUpTo(S, n - 1)
         IN  shorter \cup {Append(q, x) : q \in shorter, x \in S}

GenOpens == {OPEN, <<>>, DocStart, <<"\n">> \o OPEN}
GenHeaderLines == {<<"name: a">>, <<"description: p">>, <<"license: MIT">>,
                   <<"name: ''">>, <<"name: 1">>, <<"x">>, <<>>}
GenHeaders == {Join(ls, <<"\n">>) : ls \in SeqsUpTo(GenHeaderLines, MaxHeaderLines)}
GenCloses == {CLOSE, <<"\n">> \o DocStart, OPEN, <<>>}
RULE_BODY == <<"x">> \o CLOSE \o <<"x">>
GenBodies == SeqsUpTo({"x", "\n", " "}, MaxBodyLen) \cup {RULE_BODY}
GenTexts == {o \o h \o c \o b : o \in GenOpens, h \in GenHeaders, c \in GenCloses, b \in GenBodies}

ParseBoot == [exists |-> {PKG}, env |-> ""]

InitParse ==
    /\ boot = ParseBoot
    /\ skillsPaths = getAllSkillsDirectories(ParseBoot.exists, ParseBoot.env)
    /\ dirState = [d \in AllDirs |-> IF d = PKG THEN "ok" ELSE "ENOENT"]
    /\ \E t \in GenTexts :
          tree = [d \in AllDirs |-> [n \in Names |->
                    IF d = PKG /\ n = "a" THEN SkillDir(t) ELSE NoEntry]]
    /\ skillRegistry = EmptyMap
    /\ resp = NoResp
    /\ prevLoad = NoLoad
    /\ lastScan = NoScan
    /\ edits = 0
    /\ ConcIdle

NextParse ==
    \/ DoDiscoverSkills
    \/ DoLoadSkill("a")
    \/ DoGetSkillMetadata("a")

SpecParse == InitParse /\ [][NextParse]_vars

----------------------------------------------------------------------------
(* Copies of the same skill in two configured directories: the packaged    *)
(* and the per-user directory each hold, for every name, no entry or a     *)
(* skill directory whose SKILL.md is valid, has no frontmatter, or has an  *)
(* empty header.                                                           *)

\* a file whose header block is empty
TEXT_NULL == OPEN \o CLOSE \o <<"x">>
PrecTexts == {TEXT_P, TEXT_Q, TEXT_BAD, TEXT_NULL}
PrecEntries == {NoEntry} \cup {SkillDir(t) : t \in PrecTexts}

InitPrec ==
    /\ boot = LiveBoot
    /\ skillsPaths = getAllSkillsDirectories(LiveBoot.exists, LiveBoot.env)
    /\ dirState = [d \in AllDirs |-> IF d \in LiveBoot.exists THEN "ok" ELSE "ENOENT"]
    /\ \E f \in [LiveBoot.exists \X Names -> PrecEntries] :
          tree = [d \in AllDirs |-> [n \in Names |->
                    IF d \in LiveBoot.exists THEN f[<<d, n>>] ELSE NoEntry]]
    /\ skillRegistry = EmptyMap
    /\ resp = NoResp
    /\ prevLoad = NoLoad
    /\ lastScan = NoScan
    /\ edits = 0
    /\ ConcIdle

NextPrec ==
    \/ DoDiscoverSkills
    \/ DoListTools
    \/ \E n \in Names : DoLoadSkill(n)
    \/ \E n \in Names : DoGetSkillMetadata(n)

SpecPrec == InitPrec /\ [][NextPrec]_vars

----------------------------------------------------------------------------
(* The directory list for every start of the process: any set of existing  *)
(* candidate directories, SKILLS_DIR unset or set; candidate directories    *)
(* are then created and removed while the server answers requests.          *)

MaxDirEdits == 1

SkillsDirChoices == {"", CUSTOM, PKG}
AllBoots == [exists : SUBSET AllDirs, env : SkillsDirChoices]

\* every directory that exists at start holds its own copy of skill a
DirsTree(b) ==
    [d \in AllDirs |-> [n \in Names |->
        IF d \in b.exists /\ n = "a"
        THEN SkillDir(IF d = PKG THEN TEXT_P ELSE TEXT_Q)
        ELSE NoEntry]]

InitDirs ==
    \E b \in AllBoots :
        /\ boot = b
        /\ skillsPaths = getAllSkillsDirectories(b.exists, b.env)
        /\ dirState = [d \in AllDirs |-> IF d \in b.exists THEN "ok" ELSE "ENOENT"]
        /\ tree = DirsTree(b)
        /\ skillRegistry = EmptyMap
        /\ resp = NoResp
        /\ prevLoad = NoLoad
        /\ lastScan = NoScan
        /\ edits = 0
        /\ ConcIdle

\* mkdir -p <d>/b with a SKILL.md in it, for a directory that is missing
CreateDir(d) ==
    /\ dirState[d] = "ENOENT"
    /\ dirState' = [dirState EXCEPT ![d] = "ok"]
    /\ tree' = [tree EXCEPT ![d]["b"] = SkillDir(TEXT_Q)]

\* rm -r <d>
RemoveDir(d) ==
    /\ dirState[d] # "ENOENT"
    /\ dirState' = [dirState EXCEPT ![d] = "ENOENT"]
    /\ tree' = [tree EXCEPT ![d] = [n \in Names |-> NoEntry]]

DirChange ==
    /\ edits < MaxDirEdits
    /\ \E d \in AllDirs : CreateDir(d) \/ RemoveDir(d)
    /\ edits' = edits + 1
    /\ resp' = NoResp
    /\ Archive
    /\ lastScan' = NoScan
    /\ UNCHANGED <<boot, skillsPaths, skillRegistry>>
    /\ UNCHANGED concVars

NextDirs ==
    \/ DirChange
    \/ DoDiscoverSkills
    \/ DoListTools
    \/ \E n \in Names : DoLoadSkill(n)
    \/ \E n \in Names : DoGetSkillMetadata(n)
    \/ \E n \in Names : DoCallTool("get_skill", [defined |-> TRUE, skill_name |-> n])

SpecDirs == InitDirs /\ [][NextDirs]_vars

----------------------------------------------------------------------------
(* Properties *)

AfterDiscovery == resp.op \in {"discoverSkills", "ListTools"}

\* the indices of the configured directories under which name n has a
\* subdirectory with SKILL.md
Holders(n) == {i \in 1..Len(skillsPaths) : AccessOk(skillsPaths[i], n)}
Discoverable == {n \in Names : Holders(n) # {}}

\* the text of <d>/<n>/SKILL.md
TextOf(d, n) == tree[d][n].text

\* the text of the first (only) item of a CallTool response
RespText == resp.out.value.content[1].text

\* C1: after a discovery over D1..Dn, a name with SKILL.md under Di and Dj,
\* i < j, is registered with source Dj and path Dj/S (the last such Dj), and
\* loadSkill of it returns description, body and source of the Dj copy.
C1_LaterDirectoryWins ==
    AfterDiscovery =>
        \A S \in Names : \A i, j \in Holders(S) :
            (i < j /\ j = Max(Holders(S))) =>
                LET Dj == skillsPaths[j]
                    copy == parseSkillFile(TextOf(Dj, S))
                    loaded == loadSkill(S)
                IN  /\ S \in DOMAIN skillRegistry
                    /\ skillRegistry[S] = [path |-> <<Dj, S>>, source |-> Dj]
                    /\ copy.ok =>
                          /\ loaded.ok
                          /\ loaded.value.description = copy.metadata["description"]
                          /\ loaded.value.content = copy.content
                          /\ loaded.value.source = Dj

C1_Witness ==
    /\ AfterDiscovery
    /\ \E S \in Names : \E i, j \in Holders(S) :
          /\ i < j
          /\ skillsPaths[i] # skillsPaths[j]
          /\ TextOf(skillsPaths[i], S) # TextOf(skillsPaths[j], S)
          /\ parseSkillFile(TextOf(skillsPaths[i], S)).ok
          /\ parseSkillFile(TextOf(skillsPaths[j], S)).ok

C3_RescanOnly ==
    AfterDiscovery =>
        /\ DOMAIN skillRegistry = Discoverable
        /\ \A n \in Discoverable :
              skillRegistry[n] = RegistryEntry(skillsPaths[Max(Holders(n))], n)
        /\ resp.op = "discoverSkills" => resp.out.value = SortNames(Discoverable)

C3_Witness ==
    /\ AfterDiscovery
    /\ DOMAIN resp.out.before \ DOMAIN skillRegistry # {}
    /\ DOMAIN skillRegistry \ DOMAIN resp.out.before # {}

\* C4: after a valid skill subdirectory is added under a configured
\* directory, the next get_skill invocation for that name returns its
\* content, whether or not a discovery happened in between.
C4_LoadSeesAddedSkill ==
    (/\ resp.op = "CallTool"
     /\ resp.req[1] = "get_skill"
     /\ SkillNameArg(resp.req[2]) \in Discoverable) =>
        LET n == SkillNameArg(resp.req[2])
            d == skillsPaths[Max(Holders(n))]
        IN  (tree[d][n] # InitTree(boot)[d][n] /\ parseSkillFile(TextOf(d, n)).ok) =>
                RespText[1] # "Error: "

\* C5: a lookup made while a scan is in flight sees the pre-scan or the
\* post-scan registry: a name in both is never reported as not found.
C5_NoHalfUpdatedRegistry ==
    (/\ dpc = "idle"
     /\ midLookup.during
     /\ midLookup.name \in DOMAIN preScan
     /\ midLookup.name \in DOMAIN skillRegistry) => midLookup.found

\* C6: loadSkill of a name absent from the registry fails with the not-found
\* message naming it and hinting at discovery, reads no file and leaves the
\* registry as it was.
C6_NotFound ==
    [][(/\ resp'.op = "loadSkill"
        /\ resp' # resp
        /\ resp'.req[1] \notin DOMAIN skillRegistry) =>
           /\ ~resp'.out.ok
           /\ resp'.out.message =
                 <<"Skill \"", resp'.req[1],
                   "\" not found. Run list_skills to see available skills.">>
           /\ resp'.out.reads = {}
           /\ skillRegistry' = skillRegistry]_vars

C6_Witness ==
    /\ resp.op = "loadSkill"
    /\ resp.req[1] \notin DOMAIN skillRegistry
    /\ skillRegistry # EmptyMap
    /\ ~resp.out.ok

FourViolations == {MSG_OPEN, MSG_CLOSE, MSG_NAME, MSG_DESC}

\* C7: a file that fails to parse is reported with one of the four format
\* violations (opening delimiter, closing delimiter, name, description),
\* never with another message.
C7_FourViolations ==
    (resp.op = "loadSkill" /\ resp.req[1] \in DOMAIN skillRegistry /\ ~resp.out.ok) =>
        \E m \in FourViolations : resp.out.message = FailedLoad(resp.req[1], m)

\* the lines of a file; a line other than the last one ends with a newline
ClosingLines(t) == {j \in 2..(Len(SplitLines(t)) - 1) : SplitLines(t)[j] = DocStart}
HeaderOf(t) == Join(SubSeq(SplitLines(t), 2, Min(ClosingLines(t)) - 1), <<"\n">>)
AfterClose(t) ==
    Join(SubSeq(SplitLines(t), Min(ClosingLines(t)) + 1, Len(SplitLines(t))), <<"\n">>)

\* an opening delimiter line, a header with name and description, a closing
\* delimiter line
WellFormed(t) ==
    /\ Len(SplitLines(t)) >= 2
    /\ SplitLines(t)[1] = DocStart
    /\ ClosingLines(t) # {}
    /\ LET y == YAMLparse(HeaderOf(t))
       IN  y.kind = "map" /\ Truthy(Prop(y, "name")) /\ Truthy(Prop(y, "description"))

\* B is rest without its leading and trailing whitespace
IsTrimOf(B, rest) ==
    \E i, j \in 0..Len(rest) :
        /\ i + j <= Len(rest)
        /\ B = SubSeq(rest, i + 1, Len(rest) - j)
        /\ \A k \in 1..i : IsWS(rest[k])
        /\ \A k \in (Len(rest) - j + 1)..Len(rest) : IsWS(rest[k])
        /\ B # <<>> => ~IsWS(B[1]) /\ ~IsWS(B[Len(B)])
        /\ B = <<>> => i + j = Len(rest)

\* C8: for a well-formed file, loadSkill succeeds and its content is the
\* text after the closing delimiter line without leading and trailing
\* whitespace.
C8_Body ==
    (resp.op = "loadSkill" /\ resp.req[1] \in DOMAIN skillRegistry) =>
        LET e == skillRegistry[resp.req[1]]
            t == TextOf(e.path[1], e.path[2])
        IN  (AccessOk(e.path[1], e.path[2]) /\ WellFormed(t)) =>
                /\ resp.out.ok
                /\ IsTrimOf(resp.out.value.content, AfterClose(t))

C8_Witness ==
    /\ resp.op = "loadSkill"
    /\ resp.req[1] \in DOMAIN skillRegistry
    /\ resp.out.ok
    /\ LET e == skillRegistry[resp.req[1]]
           t == TextOf(e.path[1], e.path[2])
       IN  /\ WellFormed(t)
           /\ resp.out.value.content # <<>>
           /\ resp.out.value.content # AfterClose(t)

C12_Template ==
    (/\ resp.op = "CallTool"
     /\ resp.req[1] = "get_skill"
     /\ SkillNameArg(resp.req[2]) \in DOMAIN skillRegistry) =>
        LET e == skillRegistry[SkillNameArg(resp.req[2])]
            file == parseSkillFile(TextOf(e.path[1], e.path[2]))
        IN  (AccessOk(e.path[1], e.path[2]) /\ file.ok) =>
                /\ resp.out.ok
                /\ Len(resp.out.value.content) = 1
                /\ resp.out.value.content[1].type = "text"
                /\ RespText =
                      <<"# Skill: ", file.metadata["name"], "\n",
                        "\n",
                        "**Description:** ", file.metadata["description"], "\n",
                        "**Source:** ", e.source, "\n",
                        "\n",
                        "---", "\n",
                        "\n">> \o file.content

C12_Witness ==
    /\ resp.op = "CallTool"
    /\ resp.req[1] = "get_skill"
    /\ SkillNameArg(resp.req[2]) \in DOMAIN skillRegistry
    /\ resp.out.ok
    /\ RespText[1] = "# Skill: "
    /\ RespText[2] # SkillNameArg(resp.req[2])
    /\ RespText[Len(RespText)] = "x"

\* the get_skill description of a ListTools response
RespDescription == resp.out.value.tools[1].description

IsSortedListOf(s, S) ==
    /\ Len(s) = Cardinality(S)
    /\ {s[i] : i \in 1..Len(s)} = S
    /\ \A i, j \in 1..Len(s) : i < j => Before(s[i], s[j])

\* C14: the description of a ListTools response comes from that call's
\* scan: with no skill on disk it says that no skills are available and
\* names every configured directory; otherwise it lists exactly the names
\* on disk at that call, in ascending order.
C14_DescriptionFromScan ==
    resp.op = "ListTools" =>
        LET desc == RespDescription
            parts == {desc[i] : i \in 1..Len(desc)}
            none == "\n\nNo skills currently available. Check configured directories: "
            some == "\n\nAvailable skills: "
        IN  IF Discoverable = {}
            THEN /\ none \in parts
                 /\ some \notin parts
                 /\ \A i \in 1..Len(skillsPaths) : skillsPaths[i] \in parts
                 /\ parts \cap Names = {}
            ELSE /\ some \in parts
                 /\ none \notin parts
                 /\ IsSortedListOf(SelectSeq(desc, LAMBDA x : x \in Names), Discoverable)

C14_Witness ==
    /\ resp.op = "ListTools"
    /\ Discoverable = {}
    /\ resp.out.before # EmptyMap
    /\ Len(skillsPaths) = 2

\* the longest description shown whole, and the number of characters the
\* description values of the model stand for: "q" is a long description
MAX_DESCRIPTION == 200
LONG_DESCRIPTION == 250
DescriptionChars(v) == IF v = "q" THEN LONG_DESCRIPTION ELSE 1
ELLIPSIS == "..."

\* a description as the claim has it shown: whole, or its first characters
\* followed by the ellipsis marker, 200 characters together
CutTo(v, n) == IF v = "q" /\ n = MAX_DESCRIPTION - 3 THEN "q, first 197 characters" ELSE v
ShownDescription(v) ==
    IF DescriptionChars(v) > MAX_DESCRIPTION
    THEN <<CutTo(v, MAX_DESCRIPTION - 3), ELLIPSIS>>
    ELSE <<v>>

\* in desc, name n is followed by the parts shown before any other name
PairedWith(desc, n, shown) ==
    \E i, j \in 1..Len(desc) :
        /\ i < j
        /\ desc[i] = n
        /\ j + Len(shown) - 1 <= Len(desc)
        /\ SubSeq(desc, j, j + Len(shown) - 1) = shown
        /\ \A k \in (i + 1)..(j - 1) : desc[k] \notin Names

\* C15: in the description of a ListTools response every discovered name
\* whose metadata loads is paired with its description, cut to 200
\* characters ending in "..." when it is longer.
C15_DescriptionsShown ==
    resp.op = "ListTools" =>
        \A n \in Discoverable :
            LET meta == getSkillMetadata(n)
            IN  meta.ok =>
                    PairedWith(RespDescription, n,
                               ShownDescription(meta.value.metadata["description"]))

\* C16: when the metadata of a discovered name cannot be loaded, the
\* ListTools response still lists it, bare, as "- <name>", and every other
\* discovered name is listed too.
C16_BareNameFallback ==
    resp.op = "ListTools" =>
        \A n \in Discoverable :
            ~getSkillMetadata(n).ok =>
                /\ resp.out.ok
                /\ \E i \in 1..(Len(RespDescription) - 1) :
                      /\ RespDescription[i] = "- "
                      /\ RespDescription[i + 1] = n
                      /\ i + 2 <= Len(RespDescription) => RespDescription[i + 2] = "\n"
                /\ \A o \in Discoverable :
                      \E i \in 1..Len(RespDescription) : RespDescription[i] = o

\* C17: a discovery that follows another one with no filesystem change in
\* between, get_skill requests or not, hands out the same sorted names and
\* leaves the same registry as that one.
C17_RepeatedDiscovery ==
    [][(/\ resp'.op \in {"discoverSkills", "ListTools"}
        /\ lastScan'.valid
        /\ ~lastScan'.loads
        /\ lastScan.valid) =>
           /\ lastScan'.names = lastScan.names
           /\ resp'.op = "discoverSkills" => resp'.out.value = lastScan.names
           /\ skillRegistry' = lastScan.registry
           /\ skillRegistry' = skillRegistry]_vars

C17_Witness ==
    /\ AfterDiscovery
    /\ lastScan.again
    /\ Cardinality(DOMAIN skillRegistry) = 2

\* C18: the list discoverSkills returns is strictly ascending, so no name
\* occurs twice, also for a name found under several configured directories
\* or under a directory configured twice.
C18_SortedUnique ==
    resp.op = "discoverSkills" =>
        LET names == resp.out.value
        IN  /\ \A i, j \in 1..Len(names) : i < j => Before(names[i], names[j])
            /\ \A i, j \in 1..Len(names) : i # j => names[i] # names[j]

C18_Witness ==
    /\ resp.op = "discoverSkills"
    /\ Len(resp.out.value) = 2
    /\ skillsPaths[1] = skillsPaths[2]
    /\ \A n \in Names : Cardinality(Holders(n)) = 2

\* C19: a name is in the result of a discovery exactly if some configured
\* directory that can be listed has an immediate subdirectory of that name
\* holding SKILL.md; plain files, subdirectories without SKILL.md and skill
\* directories nested one level further down contribute nothing.
C19_ExactlySkillDirs ==
    AfterDiscovery =>
        \A n \in Names :
            LET listed == IF resp.op = "discoverSkills"
                          THEN \E i \in 1..Len(resp.out.value) : resp.out.value[i] = n
                          ELSE \E i \in 1..Len(RespDescription) : RespDescription[i] = n
                onDisk == \E k \in 1..Len(skillsPaths) :
                              LET d == skillsPaths[k]
                              IN  /\ dirState[d] = "ok"
                                  /\ tree[d][n].kind = "dir"
                                  /\ tree[d][n].md
            IN  /\ listed <=> onDisk
                /\ n \in DOMAIN skillRegistry <=> onDisk

C19_Witness ==
    /\ resp.op = "discoverSkills"
    /\ resp.out.value = <<"a">>
    /\ \E d \in Range(skillsPaths) : tree[d]["b"] = NestedDir
    /\ \E d \in Range(skillsPaths) : tree[d]["b"] = PlainFile

\* the configured directories that cannot be listed
BadDirs == {d \in Range(skillsPaths) : dirState[d] # "ok"}

\* C20: a discovery over configured directories of which some do not exist
\* or cannot be listed still succeeds: exactly the unlistable existing ones
\* are reported with console.error, and every skill of every other
\* configured directory is in the result and in the registry.
C20_BadDirectoriesSkipped ==
    (AfterDiscovery /\ BadDirs # {}) =>
        /\ resp.out.ok
        /\ resp.out.logged = {d \in BadDirs : dirState[d] # "ENOENT"}
        /\ \A d \in Range(skillsPaths) \ BadDirs : \A n \in Names :
              (tree[d][n].kind = "dir" /\ tree[d][n].md) =>
                  /\ n \in DOMAIN skillRegistry
                  /\ resp.op = "discoverSkills" =>
                        \E i \in 1..Len(resp.out.value) : resp.out.value[i] = n

C20_Witness ==
    /\ resp.op = "discoverSkills"
    /\ Len(skillsPaths) = 2
    /\ dirState[skillsPaths[1]] = "EACCES"
    /\ resp.out.logged = {skillsPaths[1]}
    /\ resp.out.value = <<"b">>

\* the candidates in their fixed order, the override last when it is set
StandardDirs == {PKG, HOME, PROJ_CLAUDE, PROJ}
Candidates(env) ==
    <<PKG, HOME, PROJ_CLAUDE, PROJ>> \o (IF env # "" THEN <<env>> ELSE <<>>)

\* s picks elements of c without changing their order
IsSubsequence(s, c) ==
    \E f \in [1..Len(s) -> 1..Len(c)] :
        /\ \A i \in 1..Len(s) : s[i] = c[f[i]]
        /\ \A i, j \in 1..Len(s) : i < j => f[i] < f[j]

\* C21: the directory list is a subsequence of the candidate order packaged
\* default, per-user, per-project hidden, per-project visible, override; the
\* override, when included, is the last element, and after a discovery a
\* name it holds is registered from it.
C21_CandidateOrder ==
    /\ IsSubsequence(skillsPaths, Candidates(boot.env))
    /\ (boot.env # "" /\ boot.env \in Range(skillsPaths)) =>
          skillsPaths[Len(skillsPaths)] = boot.env
    /\ (AfterDiscovery /\ boot.env # "") =>
          \A n \in Names :
              (dirState[boot.env] = "ok" /\ tree[boot.env][n].kind = "dir"
                  /\ tree[boot.env][n].md) =>
                  /\ n \in DOMAIN skillRegistry
                  /\ skillRegistry[n].source = boot.env

C21_Witness ==
    /\ AfterDiscovery
    /\ boot.env = CUSTOM
    /\ {PKG, PROJ, CUSTOM} \subseteq boot.exists
    /\ Len(skillsPaths) = 3
    /\ "a" \in DOMAIN skillRegistry
    /\ skillRegistry["a"].source = CUSTOM

\* no candidate is included: no standard candidate exists at start and no
\* override is included
NoneIncluded(overrideIn) == boot.exists \cap StandardDirs = {} /\ ~overrideIn

C25_DirectoryOrderFixed ==
    [][/\ skillsPaths' = skillsPaths
       /\ skillsPaths' = getAllSkillsDirectories(boot.exists, boot.env)
       /\ resp'.op \in {"discoverSkills", "ListTools"} =>
             DOMAIN skillRegistry' =
                 {n \in Names : \E k \in 1..Len(skillsPaths) :
                     /\ dirState'[skillsPaths[k]] = "ok"
                     /\ tree'[skillsPaths[k]][n].kind = "dir"
                     /\ tree'[skillsPaths[k]][n].md}]_vars

C25_Witness ==
    /\ AfterDiscovery
    /\ skillsPaths = <<PKG, CUSTOM>>
    /\ dirState[HOME] = "ok"
    /\ HOME \notin boot.exists
    /\ tree[HOME]["b"].md
    /\ DOMAIN skillRegistry = {"a"}
    /\ skillsPaths # getAllSkillsDirectories({d \in AllDirs : ExistsSync(d)}, boot.env)

\* C26: getSkillMetadata succeeds exactly when loadSkill does; it fails with
\* its not-found message exactly when loadSkill fails with not-found, and
\* otherwise with the same cause wrapped; on success it returns loadSkill's
\* name, description and source and no body.
C26_MetadataLikeLoad ==
    resp.op = "getSkillMetadata" =>
        LET n == resp.req[1]
            loaded == loadSkill(n)
            notFoundL == <<"Skill \"", n, "\" not found. Run list_skills to see available skills.">>
            notFoundM == <<"Skill \"", n, "\" not found">>
            wrapL == <<"Failed to load skill \"", n, "\": ">>
            wrapM == <<"Failed to load metadata for skill \"", n, "\": ">>
        IN  /\ resp.out.ok <=> loaded.ok
            /\ resp.out.reads = loaded.reads
            /\ resp.out.ok =>
                  /\ resp.out.value.metadata["name"] = loaded.value.name
                  /\ resp.out.value.metadata["description"] = loaded.value.description
                  /\ resp.out.value.source = loaded.value.source
                  /\ "content" \notin DOMAIN resp.out.value
                  /\ "content" \notin DOMAIN resp.out.value.metadata
            /\ ~resp.out.ok =>
                  /\ resp.out.message = notFoundM <=> loaded.message = notFoundL
                  /\ resp.out.message # notFoundM =>
                        \E cause \in {SubSeq(loaded.message, 4, Len(loaded.message))} :
                            /\ loaded.message = wrapL \o cause
                            /\ resp.out.message = wrapM \o cause

C26_Witness ==
    /\ resp.op = "getSkillMetadata"
    /\ ~resp.out.ok
    /\ resp.req[1] \in DOMAIN skillRegistry
    /\ dirState[skillRegistry[resp.req[1]].source] = "EACCES"

\* C27: loadSkill and get_skill read no file but <entry.path>/SKILL.md of the
\* registry entry under the requested name, which lies in a configured
\* directory; for a name outside the registry they read nothing and answer
\* not found, also when a skill directory of that name is on disk.
C27_ReadsOnlyRegistered ==
    (\/ resp.op = "loadSkill"
     \/ /\ resp.op = "CallTool"
        /\ resp.req[1] = "get_skill"
        /\ Truthy(SkillNameArg(resp.req[2]))) =>
        LET n == IF resp.op = "loadSkill" THEN resp.req[1] ELSE SkillNameArg(resp.req[2])
            notFound == <<"Skill \"", n, "\" not found. Run list_skills to see available skills.">>
        IN  IF n \in DOMAIN skillRegistry
            THEN LET e == skillRegistry[n]
                 IN  /\ resp.out.reads = {<<e.path[1], e.path[2], "SKILL.md">>}
                     /\ e.path[2] = n
                     /\ e.path[1] \in Range(skillsPaths)
            ELSE /\ resp.out.reads = {}
                 /\ resp.op = "loadSkill" => (~resp.out.ok /\ resp.out.message = notFound)
                 /\ resp.op = "CallTool" => RespText = <<"Error: ">> \o notFound

C27_Witness ==
    /\ resp.op = "CallTool"
    /\ resp.req[1] = "get_skill"
    /\ SkillNameArg(resp.req[2]) \in Discoverable \ DOMAIN skillRegistry
    /\ skillRegistry # EmptyMap
    /\ resp.out.reads = {}

\* C28: no request, answered with a result or with an error, changes the
\* filesystem: directories and their entries are as before the call.
C28_ReadOnly ==
    [][resp'.op # "none" => (dirState' = dirState /\ tree' = tree)]_vars

C28_Witness ==
    /\ resp.op = "discoverSkills"
    /\ resp.out.logged # {}
    /\ \E d \in Range(skillsPaths) : dirState[d] = "ENOENT"

\* the four rules on the lines of a file, in the order they are checked; the
\* closing delimiter is the first delimiter line below at least one header
\* line, and the header is what lies between it and the opening line
ClosingBelowHeader(t) == {j \in ClosingLines(t) : j >= 3}
HeaderAbove(t) == Join(SubSeq(SplitLines(t), 2, Min(ClosingBelowHeader(t)) - 1), <<"\n">>)
RuleOpening(t) == Len(SplitLines(t)) >= 2 /\ SplitLines(t)[1] = DocStart
RuleClosing(t) == ClosingBelowHeader(t) # {}
RuleName(t) == Truthy(Prop(YAMLparse(HeaderAbove(t)), "name"))
RuleDescription(t) == Truthy(Prop(YAMLparse(HeaderAbove(t)), "description"))

\* the violation of the first rule that t breaks, <<>> if it breaks none
FirstViolation(t) ==
    IF ~RuleOpening(t) THEN MSG_OPEN
    ELSE IF ~RuleClosing(t) THEN MSG_CLOSE
    ELSE IF ~RuleName(t) THEN MSG_NAME
    ELSE IF ~RuleDescription(t) THEN MSG_DESC
    ELSE <<>>

\* C29: loading a file that breaks one or more of the rules opening
\* delimiter, closing delimiter, name, description fails with the violation
\* of the first rule broken in that order, and a file that breaks none loads.
C29_FirstRuleReported ==
    (resp.op = "loadSkill" /\ resp.req[1] \in DOMAIN skillRegistry) =>
        LET e == skillRegistry[resp.req[1]]
            t == TextOf(e.path[1], e.path[2])
        IN  AccessOk(e.path[1], e.path[2]) =>
                IF FirstViolation(t) = <<>> THEN resp.out.ok
                ELSE /\ ~resp.out.ok
                     /\ resp.out.message = FailedLoad(resp.req[1], FirstViolation(t))

\* <d>/<n>/SKILL.md exists in a directory that can be listed
Present(d, n) == dirState[d] = "ok" /\ tree[d][n].kind = "dir" /\ tree[d][n].md

\* name n is in the list a discovery answered with
Listed(n) ==
    IF resp.op = "discoverSkills"
    THEN \E i \in 1..Len(resp.out.value) : resp.out.value[i] = n
    ELSE \E i \in 1..Len(RespDescription) : RespDescription[i] = n

\* C30: a discovery lists and registers a skill directory whose SKILL.md does
\* not parse like any other; the failure shows when that skill is loaded,
\* as a wrapped load failure, and every other skill on disk is listed and
\* registered as well.
C30_DiscoveryNeverParses ==
    AfterDiscovery =>
        \A k \in 1..Len(skillsPaths) : \A n \in Names :
            LET d == skillsPaths[k]
            IN  (Present(d, n) /\ ~parseSkillFile(TextOf(d, n)).ok) =>
                    /\ Listed(n)
                    /\ n \in DOMAIN skillRegistry
                    /\ skillRegistry[n].source = d =>
                          /\ ~loadSkill(n).ok
                          /\ SubSeq(loadSkill(n).message, 1, 3)
                                = <<"Failed to load skill \"", n, "\": ">>
                    /\ \A o \in Names \ {n} :
                          (\E j \in 1..Len(skillsPaths) : Present(skillsPaths[j], o)) =>
                              (Listed(o) /\ o \in DOMAIN skillRegistry)

C30_Witness ==
    /\ resp.op = "discoverSkills"
    /\ resp.out.value = <<"a", "b">>
    /\ ~loadSkill("a").ok
    /\ loadSkill("b").ok

\* C31: when reading or parsing the file of a registered skill fails,
\* loadSkill fails with "Failed to load skill "<requested name>": " followed
\* by the message of the read or parse failure; for a name outside the
\* registry the not-found message is the whole message, without that prefix.
C31_FailureWrapped ==
    resp.op = "loadSkill" =>
        LET n == resp.req[1]
            prefix == <<"Failed to load skill \"", n, "\": ">>
        IN  IF n \in DOMAIN skillRegistry
            THEN LET file == ReadFile(skillRegistry[n].path)
                     parsed == parseSkillFile(file.text)
                 IN  /\ ~file.ok =>
                           /\ ~resp.out.ok
                           /\ resp.out.message = prefix \o file.message
                     /\ (file.ok /\ ~parsed.ok) =>
                           /\ ~resp.out.ok
                           /\ resp.out.message = prefix \o parsed.message
                     /\ ~resp.out.ok => Len(resp.out.message) > 3
            ELSE /\ ~resp.out.ok
                 /\ resp.out.message =
                       <<"Skill \"", n, "\" not found. Run list_skills to see available skills.">>
                 /\ resp.out.message[1] # "Failed to load skill \""

C31_Witness ==
    /\ resp.op = "loadSkill"
    /\ resp.req[1] \in DOMAIN skillRegistry
    /\ ~resp.out.ok
    /\ resp.out.message[4] = "ENOTDIR: not a directory, open "

\* C32: a skill is looked up under its subdirectory name, and the name and
\* description of the Skill loadSkill returns are those of the header block
\* of its file, also when the header's name is not the subdirectory name.
C32_HeaderNames ==
    (resp.op = "loadSkill" /\ resp.out.ok) =>
        LET n == resp.req[1]
            e == skillRegistry[n]
            header == YAMLparse(HeaderAbove(TextOf(e.path[1], e.path[2])))
        IN  /\ n \in DOMAIN skillRegistry
            /\ e.path[2] = n
            /\ resp.out.value.path = e.path
            /\ header.kind = "map"
            /\ resp.out.value.name = header.map["name"]
            /\ resp.out.value.description = header.map["description"]

C32_Witness ==
    /\ resp.op = "loadSkill"
    /\ resp.out.ok
    /\ resp.req[1] = "a"
    /\ resp.out.value.name = "b"
    /\ resp.out.value.description = "q"

\* typeof v === "string", for a property value that is present
IsString(v) == v # undefined /\ v # NUM_1

\* C33: loading a file succeeds only if its header decodes to an object
\* whose name and description are both strings; a header whose name is
\* present but not a string, or which decodes to something that is not an
\* object, is rejected with one of the format violations; further header
\* fields do not prevent loading and do not show in the Skill.
C33_StringFields ==
    (resp.op = "loadSkill" /\ resp.req[1] \in DOMAIN skillRegistry) =>
        LET e == skillRegistry[resp.req[1]]
            t == TextOf(e.path[1], e.path[2])
            y == YAMLparse(HeaderAbove(t))
            delimited == AccessOk(e.path[1], e.path[2]) /\ RuleOpening(t) /\ RuleClosing(t)
        IN  /\ resp.out.ok =>
                  /\ delimited
                  /\ y.kind = "map"
                  /\ IsString(Prop(y, "name"))
                  /\ IsString(Prop(y, "description"))
            /\ (delimited /\ (y.kind # "map" \/ ~IsString(Prop(y, "name"))
                                 \/ ~IsString(Prop(y, "description")))) =>
                  /\ ~resp.out.ok
                  /\ \E m \in FourViolations :
                        resp.out.message = <<"Failed to load skill \"", resp.req[1], "\": ">> \o m
            /\ (delimited /\ y.kind = "map" /\ "license" \in DOMAIN y.map
                    /\ IsString(Prop(y, "name")) /\ Prop(y, "name") # ""
                    /\ IsString(Prop(y, "description")) /\ Prop(y, "description") # "") =>
                  /\ resp.out.ok
                  /\ DOMAIN resp.out.value = {"name", "description", "content", "path", "source"}

\* C34: a ListTools or get_skill call in flight completes; its answer is
\* handed out whole in the step that ends it, and the steps before leave the
\* answers as they are; a scan in flight can always take its next step,
\* whatever load is in flight, and the step that ends a load is ReadDone.
C34_CallsComplete ==
    /\ (dpc # "idle") ~> (dpc = "idle")
    /\ (lpc # "idle") ~> (lpc = "idle")
    /\ [](dpc = "readdir" => ENABLED ReaddirDone)
    /\ [](dpc = "access" => ENABLED AccessDone)
    /\ [][/\ (dpc # "idle" /\ dpc' = "idle") =>
               (resp'.op = "ListTools" /\ resp'.out.ok /\ Len(resp'.out.value.tools) = 1)
          /\ (lpc # "idle" /\ lpc' = "idle") =>
               (resp'.op = "CallTool" /\ resp'.out.ok /\ Len(resp'.out.value.content) = 1)
          /\ (dpc' # "idle" /\ <<dpc', dIdx', dEntries'>> # <<dpc, dIdx, dEntries>>) =>
               resp' = resp
          /\ (lpc = "idle" /\ lpc' # "idle") => resp' = resp]_vars

C34_Witness ==
    /\ resp.op = "CallTool"
    /\ RespText[1] = "# Skill: "
    /\ dpc = "access"
    /\ skillRegistry = EmptyMap
    /\ lpc = "idle"
    /\ edits = 1

C37_RegistryWellFormed ==
    /\ [](dpc = "idle" =>
            \A n \in DOMAIN skillRegistry :
                /\ skillRegistry[n].source \in Range(skillsPaths)
                /\ skillRegistry[n].path = <<skillRegistry[n].source, n>>)
    /\ [][(dpc # "idle" /\ dpc' = "idle") =>
             /\ resp'.op = "ListTools"
             /\ DOMAIN skillRegistry' =
                   {x \in Range(resp'.out.value.tools[1].description) : x \in Names}]_vars

C37_Witness ==
    /\ dpc = "idle"
    /\ resp.op = "ListTools"
    /\ DOMAIN skillRegistry = {"a", "b"}
    /\ skillRegistry["a"].source # skillRegistry["b"].source
    /\ midLookup.during

\* the map a scan has built when the step it is about to take is its last:
\* its local map, with the entry being probed added if its SKILL.md is there
BuiltBy(pc, idx, entries, all) ==
    IF pc = "access" /\ AccessOk(skillsPaths[idx], Head(entries))
    THEN [n \in DOMAIN all \cup {Head(entries)} |->
             IF n = Head(entries)
             THEN [path |-> <<skillsPaths[idx], n>>, source |-> skillsPaths[idx]]
             ELSE all[n]]
    ELSE all

\* C38: of two discoveries in flight together each builds its own map: a
\* step of one leaves the map of the other as it is; the step in which one
\* returns makes the registry the whole map that one built; and no other
\* step changes the registry but the clearing at the start of a discovery.
\* So after both have returned the registry is the map of the one that
\* returned last.
C38_NoMixture ==
    [][/\ (dpc # "idle" /\ dpc' = "idle") =>
             skillRegistry' = BuiltBy(dpc, dIdx, dEntries, allSkills)
       /\ (scanB.pc # "idle" /\ scanB'.pc = "idle") =>
             skillRegistry' = BuiltBy(scanB.pc, scanB.idx, scanB.entries, scanB.all)
       /\ (<<dpc', dIdx', dEntries'>> # <<dpc, dIdx, dEntries>>) => scanB' = scanB
       /\ (scanB' # scanB) => <<dpc', dIdx', dEntries', allSkills'>> = <<dpc, dIdx, dEntries, allSkills>>
       /\ (skillRegistry' # skillRegistry) =>
             \/ dpc # "idle" /\ dpc' = "idle"
             \/ scanB.pc # "idle" /\ scanB'.pc = "idle"
             \/ skillRegistry' = EmptyMap]_vars

C38_Witness ==
    /\ dpc = "access"
    /\ scanB.pc = "idle"
    /\ resp.op = "ListTools"
    /\ skillRegistry # EmptyMap
    /\ allSkills # EmptyMap
    /\ DOMAIN allSkills # DOMAIN skillRegistry

\* C39: when the last configured directory that holds name S has a SKILL.md
\* that breaks a format rule and an earlier one has a valid SKILL.md, a
\* loadSkill(S) after discovery reads the last directory's copy alone and
\* fails with the format violation of that copy.
C39_NoFallback ==
    (resp.op = "loadSkill" /\ lastScan.valid /\ Holders(resp.req[1]) # {}) =>
        LET S == resp.req[1]
            top == skillsPaths[Max(Holders(S))]
        IN  (/\ FirstViolation(TextOf(top, S)) # <<>>
             /\ \E i \in Holders(S) : /\ i < Max(Holders(S))
                                      /\ FirstViolation(TextOf(skillsPaths[i], S)) = <<>>) =>
                /\ ~resp.out.ok
                /\ resp.out.reads = {<<top, S, "SKILL.md">>}
                /\ resp.out.message =
                      <<"Failed to load skill \"", S, "\": ">> \o FirstViolation(TextOf(top, S))

\* the SKILL.md of registry entry e is gone: its configured directory, its
\* skill directory or the file itself has been deleted
Deleted(e) ==
    \/ dirState[e.path[1]] = "ENOENT"
    \/ /\ dirState[e.path[1]] = "ok"
       /\ tree[e.path[1]][e.path[2]].kind \in {"none", "dir"}
       /\ ~tree[e.path[1]][e.path[2]].md

\* a loadSkill for a registered name whose file is gone fails with the
\* wrapped read failure, and the entry is still registered
StaleLoadFails ==
    (resp.op = "loadSkill" /\ resp.req[1] \in DOMAIN skillRegistry
        /\ Deleted(skillRegistry[resp.req[1]])) =>
        LET S == resp.req[1]
            e == skillRegistry[S]
        IN  /\ ~resp.out.ok
            /\ resp.out.message =
                  <<"Failed to load skill \"", S, "\": ",
                    "ENOENT: no such file or directory, open ",
                    <<e.path[1], e.path[2], "SKILL.md">> >>
            /\ resp.out.message #
                  <<"Skill \"", S, "\" not found. Run list_skills to see available skills.">>

\* C40: a loadSkill for a registered skill whose file or directory has been
\* deleted fails with the wrapped read failure naming the skill, not with
\* not-found, the entry staying registered; after the next discovery the
\* name is not registered and the same request fails with not-found.
C40_StaleUntilRescan ==
    /\ StaleLoadFails
    /\ AfterDiscovery =>
          \A S \in DOMAIN resp.out.before :
              Deleted(resp.out.before[S]) =>
                  /\ S \notin DOMAIN skillRegistry
                  /\ loadSkill(S).message =
                        <<"Skill \"", S, "\" not found. Run list_skills to see available skills.">>

\* C40, amended: as above, but after the next discovery the same request
\* fails with not-found only if no configured directory holds a skill
\* directory of that name any more; otherwise the name is registered from
\* the last configured directory that holds it.
C40_StaleUntilRescanElsewhere ==
    /\ StaleLoadFails
    /\ AfterDiscovery =>
          \A S \in DOMAIN resp.out.before :
              Deleted(resp.out.before[S]) =>
                  IF Holders(S) = {}
                  THEN /\ S \notin DOMAIN skillRegistry
                       /\ ~loadSkill(S).ok
                       /\ loadSkill(S).message =
                             <<"Skill \"", S,
                               "\" not found. Run list_skills to see available skills.">>
                  ELSE /\ S \in DOMAIN skillRegistry
                       /\ skillRegistry[S].source = skillsPaths[Max(Holders(S))]
                       /\ skillRegistry[S] # resp.out.before[S]

C40_Witness ==
    /\ resp.op = "discoverSkills"
    /\ "a" \in DOMAIN resp.out.before
    /\ Deleted(resp.out.before["a"])
    /\ tree[resp.out.before["a"].path[1]]["a"] = EmptyDir
    /\ "a" \notin DOMAIN skillRegistry
    /\ ~loadSkill("a").ok

====
